---- MODULE Spec2Model ----
(***************************************************************************)
(* The n-th power circuit of example_nth_power (benches/example1.rs and    *)
(* benches/example2.rs): the PowerByNumChip assignment engine, the public  *)
(* input binder and the bench_example harness that drives key generation,  *)
(* proof creation, proof verification and the artifact files.              *)
(***************************************************************************)
EXTENDS Integers, Sequences, FiniteSets, TLC

VARIABLES
    variant,        \* which bench_example runs: "example1" or "example2"
    public_input,   \* the public input vector [input, output]
    fsParams,       \* content of ./benches/params/example2_params, or NoFile
    fsProof,        \* content of ./benches/proofs/example2_proof, or NoFile
    pc,             \* position of bench_example
    panic,          \* message of the expect/unwrap/assert that aborted the run, or ""
    gen_params,     \* the `params` local of the regeneration branch (example2.rs:205)
    params,         \* `params` as used by keygen, prover and verifier
    vk,             \* the verifying key
    pk,             \* the proving key
    gen_proof,      \* the bytes transcript.finalize() returned
    proof,          \* the proof bytes handed to verify_proof
    iter,           \* iterations done by the running b.iter loop
    created,        \* number of create_proof calls that returned Ok
    verdicts,       \* results of the verify_proof calls, in order
    mode,           \* which backend call runs synthesize: "idle", "keygen_vk", "keygen_pk", "prove"
    spc,            \* position inside synthesize
    i,              \* the loop variable _i of synthesize
    rows,           \* the trace: one row [a, b, c, s] per region
    copies,         \* the declared copy constraints, pairs of cells
    constants,      \* the fixed column enabled by enable_constant
    prev_b,         \* synthesize's prev_b
    prev_c          \* synthesize's prev_c

hvars == <<variant, public_input, fsParams, fsProof, pc, panic, gen_params, params,
           vk, pk, gen_proof, proof, iter, created, verdicts>>
svars == <<mode, spc, i, rows, copies, constants, prev_b, prev_c>>
vars == <<hvars, svars>>

-----------------------------------------------------------------------------
(* Bounds of the model *)

\* The field is Z/Modulus; the pasta field of the source is far larger.
Modulus == 4099
\* Public inputs x range over 0..MaxInput.
MaxInput == 3
\* Iterations a b.iter benchmark loop runs at most.
MaxIter == 2

-----------------------------------------------------------------------------
(* Program constants *)

K == 7
LoopStart == 1
LoopEnd == 12
InSlot == 0
OutSlot == 1
InputConst == 2
OutputConst == 4096

-----------------------------------------------------------------------------
(* Field arithmetic and halo2 Value *)

Field == 0 .. (Modulus - 1)

FpFrom(n) == n % Modulus

FMul(x, y) == (x * y) % Modulus

RECURSIVE FieldPow(_, _)
FieldPow(x, n) == IF n = 0 THEN FpFrom(1) ELSE FMul(x, FieldPow(x, n - 1))

\* Value<F>: unknown is the empty set, known(v) is {v}.
Unknown == {}
Known(v) == {v}

VMul(A, B) == {FMul(x, y) : x \in A, y \in B}

-----------------------------------------------------------------------------
(* Cells of the trace *)

Cell(col, row) == <<col, row>>

AssignedCell(col, row, val) == [cell |-> Cell(col, row), value |-> val]

NoCell == [cell |-> Cell("none", 0), value |-> Unknown]

\* query_instance: known only when the prover (create_proof, or MockProver in the
\* unit tests) supplies the instance column.
InstanceValue(m, inst, slot) ==
    IF m \in {"prove", "mock"} THEN Known(inst[slot + 1]) ELSE Unknown

\* Rows the backend lets a circuit use with 2^k rows (the last rows are blinding rows).
UsableRows(k) == 2 ^ k - 6

-----------------------------------------------------------------------------
(* Optional values and files *)

None == {}
Some(x) == {x}
The(S) == CHOOSE x \in S : TRUE

NoFile == {}
File(bytes) == {bytes}

\* Bug: write instead of write_all, the last byte is not written.
FileWriteShort(bytes) == SubSeq(bytes, 1, Len(bytes) - 1)

\* file.write_all(&buf[..]) on a freshly created file: the file holds buf.
FileWriteAll(bytes) == bytes

\* read_to_end / BufReader over the whole file.
FileRead(f) == The(f)

RECURSIVE LE(_, _)
LE(v, n) == IF n = 0 THEN <<>> ELSE <<v % 256>> \o LE(v \div 256, n - 1)

RECURSIVE FromLE(_)
FromLE(bytes) == IF bytes = <<>> THEN 0 ELSE Head(bytes) + 256 * FromLE(Tail(bytes))

-----------------------------------------------------------------------------
(* Backend artifacts: Setup Parameters, keys, proofs *)

ParamsNew(k) == [k |-> k, n |-> 2 ^ k]

\* params.write: k as a little-endian u32 (the generators are a function of k).
ParamsWrite(p) == LE(p.k, 4)

ParamsReadOk(bytes) == Len(bytes) = 4 /\ FromLE(bytes) \in 1 .. 31

\* ParamsIPA::read
ParamsRead(bytes) == ParamsNew(FromLE(bytes))

\* The circuit shape the keys commit to.
Shape(p, rs, cs, ks) ==
    [k |-> p.k,
     nrows |-> Len(rs),
     selectors |-> {r \in 1 .. Len(rs) : rs[r].s},
     copies |-> cs,
     constants |-> ks]

\* Value of a cell in the finished trace, given the instance column.
CellValue(cell, rs, ks, inst) ==
    CASE cell[1] = "a" -> rs[cell[2] + 1].a
      [] cell[1] = "b" -> rs[cell[2] + 1].b
      [] cell[1] = "c" -> rs[cell[2] + 1].c
      [] cell[1] = "instance" -> Known(inst[cell[2] + 1])
      [] cell[1] = "constant" -> Known(ks[cell[2] + 1])

\* The polynomial of the gate "mul": s * (a * b - c).
GatePoly(s, a, b, c) == (s * (FMul(a, b) + Modulus - c)) % Modulus

\* The gate holds on a row (on the known values of the row).
GateHolds(r) ==
    \A a \in r.a, b \in r.b, c \in r.c :
        GatePoly(IF r.s THEN 1 ELSE 0, a, b, c) = 0

CopyHolds(cp, rs, ks, inst) ==
    CellValue(cp[1], rs, ks, inst) = CellValue(cp[2], rs, ks, inst)

\* What the backend's constraint system demands of a trace.
TraceSatisfied(rs, cs, ks, inst) ==
    /\ \A r \in 1 .. Len(rs) : GateHolds(rs[r])
    /\ \A cp \in cs : CopyHolds(cp, rs, ks, inst)

\* The transcript of a proof: bound to the parameters, the circuit shape and the
\* public input vector, and convincing only if the trace satisfied the constraints.
ProofBytes(p, key, inst, sat) ==
    <<p.k, key.nrows>> \o LE(inst[1], 2) \o LE(inst[2], 2) \o <<IF sat THEN 1 ELSE 0>>

\* verify_proof: accepts exactly the transcripts of satisfied traces for this
\* parameter set, verifying key and public input vector.
VerifyProof(p, key, inst, bytes) == bytes = ProofBytes(p, key, inst, TRUE)

-----------------------------------------------------------------------------
(* Inputs *)

\* Expected outputs tried: every x^12, its predecessor, and the source's 4096.
Outputs ==
    {FieldPow(x, LoopEnd) : x \in 0 .. MaxInput}
        \cup {(FieldPow(x, LoopEnd) + Modulus - 1) % Modulus : x \in 0 .. MaxInput}
        \cup {FpFrom(OutputConst)}

PublicInputs == {<<FpFrom(x), y>> : x \in 0 .. MaxInput, y \in Outputs}

\* The files an earlier run, or something else, may have left behind.
ParamsFiles ==
    {NoFile,
     File(ParamsWrite(ParamsNew(K))),
     File(ParamsWrite(ParamsNew(K - 3))),
     File(<<K, 0>>)}

ProofFiles ==
    {NoFile,
     File(ProofBytes(ParamsNew(K), [nrows |-> LoopEnd],
                     <<FpFrom(InputConst), FpFrom(OutputConst)>>, TRUE)),
     File(<<K>>)}

-----------------------------------------------------------------------------
(* Initial state: bench_example is entered *)

Init ==
    /\ variant \in {"example1", "example2"}
    /\ public_input \in PublicInputs
    /\ fsParams \in (IF variant = "example2" THEN ParamsFiles ELSE {NoFile})
    /\ fsProof \in (IF variant = "example2" THEN ProofFiles ELSE {NoFile})
    /\ pc = "start"
    /\ panic = ""
    /\ gen_params = None
    /\ params = None
    /\ vk = None
    /\ pk = None
    /\ gen_proof = None
    /\ proof = None
    /\ iter = 0
    /\ created = 0
    /\ verdicts = <<>>
    /\ mode = "idle"
    /\ spc = "idle"
    /\ i = 0
    /\ rows = <<>>
    /\ copies = {}
    /\ constants = <<>>
    /\ prev_b = NoCell
    /\ prev_c = NoCell

-----------------------------------------------------------------------------
(* The assignment engine: TestCircuit::synthesize and PowerByNumChip *)

\* Bug: the constant assigned to the left cell is 0.
BootstrapLeftZero == Known(FpFrom(0))

\* region.assign_advice_from_constant(.., F::from(1))
BootstrapLeft == Known(FpFrom(1))

\* Bug: the product cell of the bootstrap row is given the left value.
BootstrapProductLeftOnly(init_a, init_b) == init_a.value

\* the closure of init_c: init_a.value() * init_b.value()
BootstrapProduct(init_a, init_b) == VMul(init_a.value, init_b.value)

\* Bug: the running product is squared instead of multiplied by the multiplier.
ChainProductSquares(pb, pcell) == VMul(pcell.value, pcell.value)

\* the closure of res_c: prev_b.value() * prev_c.value()
ChainProduct(pb, pcell) == VMul(pb.value, pcell.value)

\* Bug: an inclusive range, one chain step too many.
ChainContinuesInclusive(n, pcell) == n <= LoopEnd

\* Bug: the loop stops as soon as the running product is known to be zero.
ChainContinuesUntilZero(n, pcell) == n < LoopEnd /\ pcell.value # Known(0)

\* for _i in 1..12
ChainContinues(n, pcell) == n < LoopEnd

\* Bug: the final product is bound to the input slot.
ExposedBindingInSlot(pcell) == <<pcell.cell, Cell("instance", InSlot)>>

\* Bug: expose_public constrains nothing (the cell against itself).
ExposedBindingNone(pcell) == <<pcell.cell, pcell.cell>>

\* the cell and the slot expose_public binds
ExposedBinding(pcell) == <<pcell.cell, Cell("instance", OutSlot)>>

\* Bug: the copied cell is assigned zero instead of the source's value.
CopyAdviceZero(src, col, row) == AssignedCell(col, row, Known(0))

\* prev.copy_advice(.., column, 0): the new cell takes the source's value.
CopyAdvice(src, col, row) == AssignedCell(col, row, src.value)

\* intial_assign: the bootstrap row, region 0.
IntialAssign ==
    /\ mode # "mock"
    /\ spc = "intial_assign"
    /\ LET init_a == AssignedCell("a", 0, BootstrapLeft)
           init_b == AssignedCell("b", 0, InstanceValue(mode, public_input, InSlot))
           init_c == AssignedCell("c", 0, BootstrapProduct(init_a, init_b))
       IN /\ rows' = <<[a |-> init_a.value, b |-> init_b.value,
                        c |-> init_c.value, s |-> TRUE]>>
          /\ constants' = <<The(BootstrapLeft)>>
          /\ copies' = {<<Cell("constant", 0), init_a.cell>>,
                        <<Cell("instance", InSlot), init_b.cell>>}
          /\ prev_b' = init_b
          /\ prev_c' = init_c
    /\ i' = LoopStart
    /\ spc' = "loop"
    /\ UNCHANGED <<hvars, mode>>

\* Bug: the region is placed on the last assigned row and overwrites it.
AssignRegionOverwrite(rs, row) == [rs EXCEPT ![Len(rs)] = row]

\* layouter.assign_region: the floor planner places the new region on the next
\* free row, below every row assigned so far.
AssignRegion(rs, row) == Append(rs, row)

\* subsequent_assign: one chain-step row, in the next free region.
SubsequentAssign ==
    /\ mode # "mock"
    /\ spc = "loop"
    /\ ChainContinues(i, prev_c)
    /\ Len(rows) < UsableRows(The(params).k)
    /\ LET row == Len(rows)
           a == CopyAdvice(prev_c, "a", row)
           b == CopyAdvice(prev_b, "b", row)
           res_c == AssignedCell("c", row, ChainProduct(prev_b, prev_c))
       IN /\ rows' = AssignRegion(rows, [a |-> a.value, b |-> b.value,
                                   c |-> res_c.value, s |-> TRUE])
          /\ copies' = copies \cup {<<prev_c.cell, a.cell>>, <<prev_b.cell, b.cell>>}
          /\ prev_c' = res_c
    /\ i' = i + 1
    /\ UNCHANGED <<hvars, mode, spc, constants, prev_b>>

\* subsequent_assign returns Err: the region does not fit the usable rows.
SubsequentAssignFails ==
    /\ mode # "mock"
    /\ spc = "loop"
    /\ ChainContinues(i, prev_c)
    /\ Len(rows) >= UsableRows(The(params).k)
    /\ spc' = "error"
    /\ UNCHANGED <<hvars, mode, i, rows, copies, constants, prev_b, prev_c>>

\* Bug: expose_public compares the cell with the instance value and returns Err on
\* a mismatch.
ConstrainInstanceChecks(pcell, m, inst) ==
    pcell.value = InstanceValue(m, inst, OutSlot)

\* layouter.constrain_instance(cell.cell(), instance, row): records the constraint
\* and returns Ok(()) whatever the two cells hold.
ConstrainInstanceOk(pcell, m, inst) == TRUE

\* expose_public(prev_c, 1)?, then Ok(()).
ExposePublic ==
    /\ mode # "mock"
    /\ spc = "loop"
    /\ ~ChainContinues(i, prev_c)
    /\ copies' = copies \cup {ExposedBinding(prev_c)}
    /\ spc' = IF ConstrainInstanceOk(prev_c, mode, public_input) THEN "done" ELSE "error"
    /\ UNCHANGED <<hvars, mode, i, rows, constants, prev_b, prev_c>>

-----------------------------------------------------------------------------
(* The harness: bench_example *)

\* Bug: the Err is logged and the harness carries on.
AbortIgnored(msg) ==
    /\ panic' = msg
    /\ pc' = pc

\* expect / unwrap / assert! on a failed call: the panic ends bench_example.
Abort(msg) ==
    /\ panic' = msg
    /\ pc' = "aborted"

\* Hands the circuit to a backend call: synthesize starts on an empty trace.
StartSynthesis(m) ==
    /\ mode' = m
    /\ spc' = "intial_assign"
    /\ i' = 0
    /\ rows' = <<>>
    /\ copies' = {}
    /\ constants' = <<>>
    /\ prev_b' = NoCell
    /\ prev_c' = NoCell

\* Bug: a proof is created right after the parameters, before any key exists.
PcAfterParamsProve == "prove"

\* The statement that follows parameter setup: keygen_vk.
PcAfterParams == "keygen_vk"

\* The statement that follows the keys.
\* Bug: example2 creates a proof without looking for the proof file.
PcAfterKeysAlwaysProve(v) == IF v = "example1" THEN "prove_bench" ELSE "prove"

PcAfterKeys(v) == IF v = "example1" THEN "prove_bench" ELSE "proof_check"

\* example1: Params::new(K).
Ex1ParamsNew ==
    /\ pc = "start"
    /\ variant = "example1"
    /\ params' = Some(ParamsNew(K))
    /\ pc' = PcAfterParams
    /\ UNCHANGED <<variant, public_input, fsParams, fsProof, panic, gen_params,
                   vk, pk, gen_proof, proof, iter, created, verdicts, svars>>

\* example2: File::open(params_path).is_err(): generate and write the parameters.
Ex2ParamsRegenerate ==
    /\ pc = "start"
    /\ variant = "example2"
    /\ fsParams = NoFile
    /\ gen_params' = Some(ParamsNew(K))
    /\ fsParams' = File(FileWriteAll(ParamsWrite(ParamsNew(K))))
    /\ pc' = "params_load"
    /\ UNCHANGED <<variant, public_input, fsProof, panic, params,
                   vk, pk, gen_proof, proof, iter, created, verdicts, svars>>

\* example2: the parameter file opens, nothing is generated.
Ex2ParamsPresent ==
    /\ pc = "start"
    /\ variant = "example2"
    /\ fsParams # NoFile
    /\ pc' = "params_load"
    /\ UNCHANGED <<variant, public_input, fsParams, fsProof, panic, gen_params, params,
                   vk, pk, gen_proof, proof, iter, created, verdicts, svars>>

\* example2: ParamsIPA::read of the file succeeds.
Ex2ParamsLoad ==
    /\ pc = "params_load"
    /\ ParamsReadOk(FileRead(fsParams))
    /\ params' = Some(ParamsRead(FileRead(fsParams)))
    /\ pc' = PcAfterParams
    /\ UNCHANGED <<variant, public_input, fsParams, fsProof, panic, gen_params,
                   vk, pk, gen_proof, proof, iter, created, verdicts, svars>>

\* example2: ParamsIPA::read fails, expect("Failed to read params") panics.
Ex2ParamsLoadFails ==
    /\ pc = "params_load"
    /\ ~ParamsReadOk(FileRead(fsParams))
    /\ Abort("Failed to read params")
    /\ UNCHANGED <<variant, public_input, fsParams, fsProof, gen_params, params,
                   vk, pk, gen_proof, proof, iter, created, verdicts, svars>>

\* keygen_vk(&params, &empty_circuit) runs synthesize without witnesses.
KeygenVkBegin ==
    /\ pc = "keygen_vk"
    /\ mode = "idle"
    /\ StartSynthesis("keygen_vk")
    /\ UNCHANGED hvars

KeygenVkEnd ==
    /\ pc = "keygen_vk"
    /\ mode = "keygen_vk"
    /\ spc = "done"
    /\ vk' = Some(Shape(The(params), rows, copies, constants))
    /\ pc' = "keygen_pk"
    /\ mode' = "idle"
    /\ spc' = "idle"
    /\ UNCHANGED <<variant, public_input, fsParams, fsProof, panic, gen_params, params,
                   pk, gen_proof, proof, iter, created, verdicts,
                   i, rows, copies, constants, prev_b, prev_c>>

\* synthesize returned Err: expect("vk generation failed") panics.
KeygenVkFails ==
    /\ pc = "keygen_vk"
    /\ mode = "keygen_vk"
    /\ spc = "error"
    /\ Abort("vk generation failed")
    /\ UNCHANGED <<variant, public_input, fsParams, fsProof, gen_params, params,
                   vk, pk, gen_proof, proof, iter, created, verdicts, svars>>

\* keygen_pk(&params, vk, &empty_circuit) runs synthesize without witnesses again.
KeygenPkBegin ==
    /\ pc = "keygen_pk"
    /\ mode = "idle"
    /\ StartSynthesis("keygen_pk")
    /\ UNCHANGED hvars

KeygenPkEnd ==
    /\ pc = "keygen_pk"
    /\ mode = "keygen_pk"
    /\ spc = "done"
    /\ pk' = Some([vk |-> The(vk),
                   shape |-> Shape(The(params), rows, copies, constants)])
    /\ pc' = PcAfterKeys(variant)
    /\ mode' = "idle"
    /\ spc' = "idle"
    /\ UNCHANGED <<variant, public_input, fsParams, fsProof, panic, gen_params, params,
                   vk, gen_proof, proof, iter, created, verdicts,
                   i, rows, copies, constants, prev_b, prev_c>>

\* create_proof(&params, &pk, &[circuit], &[&[&public_input]], ..) runs synthesize
\* with the instance column; in example1 also inside the prover's b.iter loop.
CreateProofBegin ==
    /\ pc \in {"prove_bench", "prove"}
    /\ mode = "idle"
    /\ pc = "prove_bench" => iter < MaxIter
    /\ StartSynthesis("prove")
    /\ UNCHANGED hvars

\* What the statement after a successful create_proof does with the transcript.
\* In the b.iter loop the transcript is dropped; the later call keeps it.
CreateProofOk ==
    /\ pc \in {"prove_bench", "prove"}
    /\ mode = "prove"
    /\ spc = "done"
    /\ created' = created + 1
    /\ LET bytes == ProofBytes(The(params), The(pk).vk, public_input,
                               TraceSatisfied(rows, copies, constants, public_input))
       IN IF pc = "prove_bench"
          THEN /\ iter' = iter + 1
               /\ UNCHANGED <<pc, gen_proof, proof>>
          ELSE /\ gen_proof' = Some(bytes)
               /\ proof' = IF variant = "example1" THEN Some(bytes) ELSE proof
               /\ pc' = IF variant = "example1" THEN "verify_bench" ELSE "proof_write"
               /\ UNCHANGED iter
    /\ mode' = "idle"
    /\ spc' = "idle"
    /\ UNCHANGED <<variant, public_input, fsParams, fsProof, panic, gen_params, params,
                   vk, pk, verdicts, i, rows, copies, constants, prev_b, prev_c>>

\* The backend's constraint check rejects the trace: create_proof returns Err and
\* expect("proof generation failed") panics.  Whether the backend checks the trace
\* at proof creation is its choice: on an unsatisfied trace both this action and
\* CreateProofOk (with a transcript no verifier accepts) are enabled.
CreateProofFails ==
    /\ pc \in {"prove_bench", "prove"}
    /\ mode = "prove"
    /\ spc = "done"
    /\ ~TraceSatisfied(rows, copies, constants, public_input)
    /\ Abort("proof generation failed")
    /\ UNCHANGED <<variant, public_input, fsParams, fsProof, gen_params, params,
                   vk, pk, gen_proof, proof, iter, created, verdicts, svars>>

\* example1: the prover's b.iter loop ends.
BenchProverEnd ==
    /\ pc = "prove_bench"
    /\ mode = "idle"
    /\ iter >= 1
    /\ pc' = "prove"
    /\ iter' = 0
    /\ UNCHANGED <<variant, public_input, fsParams, fsProof, panic, gen_params, params,
                   vk, pk, gen_proof, proof, created, verdicts, svars>>

\* example2: File::open(proof_path).is_err(): a proof has to be created.
Ex2ProofAbsent ==
    /\ pc = "proof_check"
    /\ fsProof = NoFile
    /\ pc' = "prove"
    /\ UNCHANGED <<variant, public_input, fsParams, fsProof, panic, gen_params, params,
                   vk, pk, gen_proof, proof, iter, created, verdicts, svars>>

\* example2: the proof file opens, create_proof is skipped.
Ex2ProofPresent ==
    /\ pc = "proof_check"
    /\ fsProof # NoFile
    /\ pc' = "proof_load"
    /\ UNCHANGED <<variant, public_input, fsParams, fsProof, panic, gen_params, params,
                   vk, pk, gen_proof, proof, iter, created, verdicts, svars>>

\* example2: File::create(proof_path) and write_all(&proof[..]).
Ex2ProofWrite ==
    /\ pc = "proof_write"
    /\ fsProof' = File(FileWriteAll(The(gen_proof)))
    /\ pc' = "proof_load"
    /\ UNCHANGED <<variant, public_input, fsParams, panic, gen_params, params,
                   vk, pk, gen_proof, proof, iter, created, verdicts, svars>>

\* example2: File::open(proof_path) and read_to_end(&mut proof).
Ex2ProofLoad ==
    /\ pc = "proof_load"
    /\ proof' = Some(FileRead(fsProof))
    /\ pc' = "verify_bench"
    /\ UNCHANGED <<variant, public_input, fsParams, fsProof, panic, gen_params, params,
                   vk, pk, gen_proof, iter, created, verdicts, svars>>

\* One iteration of the verifier's b.iter loop: verify_proof accepts.
VerifyAccepts ==
    /\ pc = "verify_bench"
    /\ iter < MaxIter
    /\ VerifyProof(The(params), The(pk).vk, public_input, The(proof))
    /\ verdicts' = Append(verdicts, TRUE)
    /\ iter' = iter + 1
    /\ UNCHANGED <<variant, public_input, fsParams, fsProof, pc, panic, gen_params, params,
                   vk, pk, gen_proof, proof, created, svars>>

\* verify_proof rejects: assert!(..is_ok()) / unwrap() / assert!(finalize()) panics.
VerifyRejects ==
    /\ pc = "verify_bench"
    /\ iter < MaxIter
    /\ ~VerifyProof(The(params), The(pk).vk, public_input, The(proof))
    /\ verdicts' = Append(verdicts, FALSE)
    /\ Abort("verification rejected")
    /\ UNCHANGED <<variant, public_input, fsParams, fsProof, gen_params, params,
                   vk, pk, gen_proof, proof, iter, created, svars>>

\* The verifier's b.iter loop ends and bench_example returns.
BenchVerifierEnd ==
    /\ pc = "verify_bench"
    /\ iter >= 1
    /\ pc' = "done"
    /\ UNCHANGED <<variant, public_input, fsParams, fsProof, panic, gen_params, params,
                   vk, pk, gen_proof, proof, iter, created, verdicts, svars>>

-----------------------------------------------------------------------------

Next ==
    \/ Ex1ParamsNew
    \/ Ex2ParamsRegenerate
    \/ Ex2ParamsPresent
    \/ Ex2ParamsLoad
    \/ Ex2ParamsLoadFails
    \/ KeygenVkBegin
    \/ KeygenVkEnd
    \/ KeygenVkFails
    \/ KeygenPkBegin
    \/ KeygenPkEnd
    \/ IntialAssign
    \/ SubsequentAssign
    \/ SubsequentAssignFails
    \/ ExposePublic
    \/ CreateProofBegin
    \/ CreateProofOk
    \/ CreateProofFails
    \/ BenchProverEnd
    \/ Ex2ProofAbsent
    \/ Ex2ProofPresent
    \/ Ex2ProofWrite
    \/ Ex2ProofLoad
    \/ VerifyAccepts
    \/ VerifyRejects
    \/ BenchVerifierEnd

Spec == Init /\ [][Next]_vars

-----------------------------------------------------------------------------
(* The unit tests: MockProver::run on the circuits of src/example.rs         *)
(* (example_test) and src/example2.rs (example_test2)                        *)

\* let k = 4 / let k = 3
TestK(v) == IF v = "example_test" THEN 4 ELSE 3

\* for _i in 0..3 / for _i in 1..2
TestLoopStart(v) == IF v = "example_test" THEN 0 ELSE 1
TestLoopEnd(v) == IF v = "example_test" THEN 3 ELSE 2

\* Bug: an inclusive range, one chain step too many.
TestChainContinuesInclusive(v, n) == n <= TestLoopEnd(v)

TestChainContinues(v, n) == n < TestLoopEnd(v)

\* expose_public(.., &prev_c, 2) / expose_public(.., &prev_c, 1)
TestOutSlot(v) == IF v = "example_test" THEN 2 ELSE 1

TestExposedBinding(v, pcell) == <<pcell.cell, Cell("instance", TestOutSlot(v))>>

\* The left cell of the bootstrap row: instance slot 0 in example.rs, the constant 1
\* in example2.rs.
TestBootstrapLeft(v, m, inst) ==
    IF v = "example_test" THEN InstanceValue(m, inst, 0) ELSE BootstrapLeft

\* The instance slot the right cell of the bootstrap row is copied from.
TestRightSlot(v) == IF v = "example_test" THEN 1 ELSE 0

\* Public input vectors the tests are tried with: (a, b, out) for example.rs and
\* (x, y) for example2.rs, out and y among the right results, their predecessors
\* and the values of the source.
TestInputs(v) ==
    IF v = "example_test"
    THEN LET outs == {FMul(a, FieldPow(b, 4)) : a \in 0 .. MaxInput, b \in 0 .. MaxInput}
         IN {<<FpFrom(a), FpFrom(b), o>> :
                a \in 0 .. MaxInput, b \in 0 .. MaxInput,
                o \in outs \cup {(y + Modulus - 1) % Modulus : y \in outs}
                           \cup {FpFrom(16)}}
    ELSE LET outs == {FieldPow(x, 2) : x \in 0 .. MaxInput}
         IN {<<FpFrom(x), o>> :
                x \in 0 .. MaxInput,
                o \in outs \cup {(y + Modulus - 1) % Modulus : y \in outs}
                           \cup {FpFrom(4)}}

TestInit ==
    /\ variant \in {"example_test", "example_test2"}
    /\ public_input \in TestInputs(variant)
    /\ fsParams = NoFile
    /\ fsProof = NoFile
    /\ pc = "start"
    /\ panic = ""
    /\ gen_params = None
    /\ params = None
    /\ vk = None
    /\ pk = None
    /\ gen_proof = None
    /\ proof = None
    /\ iter = 0
    /\ created = 0
    /\ verdicts = <<>>
    /\ mode = "idle"
    /\ spc = "idle"
    /\ i = 0
    /\ rows = <<>>
    /\ copies = {}
    /\ constants = <<>>
    /\ prev_b = NoCell
    /\ prev_c = NoCell

\* MockProver::run(k, &circuit, vec![public_input]) starts synthesize.
MockRunBegin ==
    /\ pc = "start"
    /\ variant \in {"example_test", "example_test2"}
    /\ StartSynthesis("mock")
    /\ pc' = "mock_run"
    /\ UNCHANGED <<variant, public_input, fsParams, fsProof, panic, gen_params, params,
                   vk, pk, gen_proof, proof, iter, created, verdicts>>

\* intial_assign of example.rs (left and right from the instance column) and of
\* example2.rs (left the constant 1, right from the instance column).
TestIntialAssign ==
    /\ mode = "mock"
    /\ spc = "intial_assign"
    /\ LET init_a == AssignedCell("a", 0, TestBootstrapLeft(variant, mode, public_input))
           init_b == AssignedCell("b", 0,
                        InstanceValue(mode, public_input, TestRightSlot(variant)))
           init_c == AssignedCell("c", 0, BootstrapProduct(init_a, init_b))
       IN /\ rows' = <<[a |-> init_a.value, b |-> init_b.value,
                        c |-> init_c.value, s |-> TRUE]>>
          /\ constants' = IF variant = "example_test" THEN <<>>
                          ELSE <<The(BootstrapLeft)>>
          /\ copies' = {IF variant = "example_test"
                        THEN <<Cell("instance", 0), init_a.cell>>
                        ELSE <<Cell("constant", 0), init_a.cell>>,
                        <<Cell("instance", TestRightSlot(variant)), init_b.cell>>}
          /\ prev_b' = init_b
          /\ prev_c' = init_c
    /\ i' = TestLoopStart(variant)
    /\ spc' = "loop"
    /\ UNCHANGED <<hvars, mode>>

\* subsequent_assign of example.rs and example2.rs.
TestSubsequentAssign ==
    /\ mode = "mock"
    /\ spc = "loop"
    /\ TestChainContinues(variant, i)
    /\ Len(rows) < UsableRows(TestK(variant))
    /\ LET row == Len(rows)
           a == CopyAdvice(prev_c, "a", row)
           b == CopyAdvice(prev_b, "b", row)
           res_c == AssignedCell("c", row, ChainProduct(prev_b, prev_c))
       IN /\ rows' = Append(rows, [a |-> a.value, b |-> b.value,
                                   c |-> res_c.value, s |-> TRUE])
          /\ copies' = copies \cup {<<prev_c.cell, a.cell>>, <<prev_b.cell, b.cell>>}
          /\ prev_c' = res_c
    /\ i' = i + 1
    /\ UNCHANGED <<hvars, mode, spc, constants, prev_b>>

\* expose_public of example.rs (slot 2) and example2.rs (slot 1), then Ok(()).
TestExposePublic ==
    /\ mode = "mock"
    /\ spc = "loop"
    /\ ~TestChainContinues(variant, i)
    /\ copies' = copies \cup {TestExposedBinding(variant, prev_c)}
    /\ spc' = "done"
    /\ UNCHANGED <<hvars, mode, i, rows, constants, prev_b, prev_c>>

\* prover.assert_satisfied() finds every gate and every copy constraint satisfied.
AssertSatisfied ==
    /\ pc = "mock_run"
    /\ spc = "done"
    /\ TraceSatisfied(rows, copies, constants, public_input)
    /\ pc' = "done"
    /\ UNCHANGED <<variant, public_input, fsParams, fsProof, panic, gen_params, params,
                   vk, pk, gen_proof, proof, iter, created, verdicts, svars>>

\* prover.assert_satisfied() panics on a failed constraint.
AssertSatisfiedPanics ==
    /\ pc = "mock_run"
    /\ spc = "done"
    /\ ~TraceSatisfied(rows, copies, constants, public_input)
    /\ Abort("assert_satisfied")
    /\ UNCHANGED <<variant, public_input, fsParams, fsProof, gen_params, params,
                   vk, pk, gen_proof, proof, iter, created, verdicts, svars>>

TestNext ==
    \/ MockRunBegin
    \/ TestIntialAssign
    \/ TestSubsequentAssign
    \/ TestExposePublic
    \/ AssertSatisfied
    \/ AssertSatisfiedPanics

TestSpec == TestInit /\ [][TestNext]_vars

\* The benchmarks and the unit tests together: every variant of the circuit.
AllInit == Init \/ TestInit

AllNext == Next \/ TestNext

AllSpec == AllInit /\ [][AllNext]_vars

-----------------------------------------------------------------------------
(* Properties *)

\* synthesize has returned Ok(()) in a pass that knows the instance column.
ProvingDone == mode = "prove" /\ spc = "done"

LastRow == rows[Len(rows)]

\* Cells some copy constraint ties to instance slot `slot`.
BoundTo(slot) ==
    {cp[1] : cp \in {q \in copies : q[2] = Cell("instance", slot)}}
        \cup {cp[2] : cp \in {q \in copies : q[1] = Cell("instance", slot)}}

\* C1: when synthesize has run with the instance column, the trace is the bootstrap
\* row (1, x, .) followed by 11 chain-step rows that all carry the multiplier x, and
\* the product cell of the last row holds x^12 in the field, for every public input x.
C1_FinalProductIsPower ==
    ProvingDone =>
        /\ Len(rows) = 12
        /\ rows[1].a = Known(FpFrom(1))
        /\ \A r \in 1 .. Len(rows) : rows[r].b = Known(public_input[1])
        /\ LastRow.c = Known(FieldPow(public_input[1], 12))

C1_Witness ==
    /\ ProvingDone
    /\ public_input[1] = 3
    /\ LastRow.c = Known(FieldPow(3, 12))

\* C2: completeness. For every public input (x, y) with y = x^12 the finished trace
\* satisfies every gate and every copy constraint (the output binding included),
\* create_proof never fails, the proof it returns is one verify_proof accepts for
\* the same (x, y), and every verification of a proof created in the run accepted.
C2_Completeness ==
    public_input[2] = FieldPow(public_input[1], 12) =>
        /\ ProvingDone => TraceSatisfied(rows, copies, constants, public_input)
        /\ panic # "proof generation failed"
        /\ gen_proof # None =>
              /\ VerifyProof(The(params), The(pk).vk, public_input, The(gen_proof))
              /\ \A j \in DOMAIN verdicts : verdicts[j]
              /\ panic = ""

C2_Witness ==
    /\ public_input = <<2, 4096>>
    /\ gen_proof # None
    /\ pc = "done"
    /\ Len(verdicts) >= 1
    /\ verdicts[1]

\* C3: soundness. For every public input (x, y') with y' # x^12 no verification
\* accepts and the run never completes: either create_proof fails or verify_proof
\* rejects.
C3_Soundness ==
    public_input[2] # FieldPow(public_input[1], 12) =>
        /\ \A j \in DOMAIN verdicts : ~verdicts[j]
        /\ pc # "done"
        /\ ProvingDone => ~TraceSatisfied(rows, copies, constants, public_input)

C3_Witness ==
    /\ public_input = <<2, 4095>>
    /\ gen_proof # None
    /\ panic = "verification rejected"
    /\ verdicts = <<FALSE>>

\* C4: when synthesize has completed the trace has exactly 12 rows, exactly one cell
\* is bound to the output slot, it is the product cell of the last row, the slot is
\* slot 1, the last of the public input vector; for x = 2 the cell holds 4096.
C4_TwelveRowsOneOutputBinding ==
    spc = "done" =>
        /\ Len(rows) = 12
        /\ BoundTo(1) = {Cell("c", 11)}
        /\ Len(public_input) = 2
        /\ (mode = "prove" /\ public_input[1] = 2) => LastRow.c = Known(FpFrom(4096))

C4_Witness ==
    /\ ProvingDone
    /\ public_input[1] = 2
    /\ Len(rows) = 12
    /\ Cell("c", 11) \in BoundTo(1)
    /\ LastRow.c = Known(4096)

\* C5: in every state, during and after assignment, every row of the trace has the
\* selector active and its product cell is exactly the field product of its left
\* and right cells (known whenever the instance column is), so the gate
\* s * (a * b - c) evaluates to 0 on every row.
C5_GateOnEveryRow ==
    \A r \in 1 .. Len(rows) :
        /\ rows[r].s
        /\ rows[r].c = VMul(rows[r].a, rows[r].b)
        /\ mode = "prove" => rows[r].c # Unknown
        /\ GateHolds(rows[r])

C5_Witness ==
    /\ mode = "prove"
    /\ spc = "loop"
    /\ Len(rows) = 5
    /\ public_input[1] = 3
    /\ rows[5].c = Known(243)

\* The copy constraint expose_public declares.
OutputBinding == <<Cell("c", 11), Cell("instance", 1)>>

\* C6 as stated: in a pass that knows the instance column, every declared copy
\* constraint, the binding of the final product cell to the output slot included,
\* links two cells that hold the same field value.
C6_EveryCopyLinksEqualValues ==
    mode = "prove" =>
        \A cp \in copies : CopyHolds(cp, rows, constants, public_input)

\* C6 amended: every copy constraint other than the output binding (the row-to-row
\* copies of product and multiplier, the instance-to-advice copy at row 0 and the
\* constant binding) links two cells that hold the same field value, for every
\* public input vector; the output binding is declared unchecked and links equal
\* values exactly when the output slot holds x^12.
C6_CopiesEqualExceptOutputBinding ==
    mode = "prove" =>
        /\ \A cp \in copies \ {OutputBinding} :
              CopyHolds(cp, rows, constants, public_input)
        /\ spc = "done" =>
              /\ OutputBinding \in copies
              /\ Cardinality(copies) = 25
              /\ CopyHolds(OutputBinding, rows, constants, public_input)
                    <=> public_input[2] = FieldPow(public_input[1], 12)

C6_Witness ==
    /\ ProvingDone
    /\ public_input = <<2, 4095>>
    /\ OutputBinding \in copies
    /\ ~CopyHolds(OutputBinding, rows, constants, public_input)
    /\ <<Cell("c", 10), Cell("a", 11)>> \in copies
    /\ <<Cell("b", 0), Cell("b", 11)>> \in copies

\* The harness state of section 4.4, read off the artifacts that exist.
Phase ==
    IF params = None THEN 0                           \* Unconfigured
    ELSE IF pk = None THEN 1                          \* ParametersReady
    ELSE IF created = 0 /\ proof = None THEN 2        \* KeysReady
    ELSE 3                                            \* ProofReady

HarnessOrder ==
    /\ vk # None => params # None
    /\ pk # None => vk # None
    /\ mode \in {"keygen_vk", "keygen_pk"} => params # None
    /\ mode = "prove" => (pk # None /\ vk # None)
    /\ (created > 0 \/ gen_proof # None) => pk # None
    /\ verdicts # <<>> => proof # None

HarnessStep ==
    /\ Phase' \in {Phase, Phase + 1}
    /\ pk # None => (params' = params /\ vk' = vk /\ pk' = pk)
    /\ vk # None => (params' = params /\ vk' = vk)

\* C7: the harness moves only along Unconfigured -> ParametersReady -> KeysReady ->
\* ProofReady, one phase at a time and never back: no key pass runs before the
\* parameters exist, no proof pass before both keys exist, no verification before a
\* proof was created or loaded, and from KeysReady on parameters and keys never
\* change while proofs are created and verified.
C7_HarnessOrder == []HarnessOrder /\ [][HarnessStep]_vars

C7_Witness ==
    /\ pc = "done"
    /\ created >= 3
    /\ Len(verdicts) >= 2
    /\ Phase = 3

\* C8: guarded loading (example2). The run never aborts on loading an artifact, and
\* the artifacts it proceeds with are never stale or corrupt: the parameters in use
\* are those of K, and the proof in use is one created in this run or a well-formed
\* proof for the current parameters, key and public input.
C8_GuardedLoading ==
    variant = "example2" =>
        /\ panic # "Failed to read params"
        /\ params # None => params = Some(ParamsNew(K))
        /\ proof # None =>
              \/ proof = gen_proof
              \/ \E sat \in BOOLEAN :
                    The(proof) = ProofBytes(The(params), The(pk).vk, public_input, sat)

C10_ShapeWitnessIndependent ==
    /\ mode \in {"keygen_vk", "keygen_pk"} =>
          \A r \in 1 .. Len(rows) : rows[r].b = Unknown /\ rows[r].c = Unknown
    /\ spc = "done" => i = 12
    /\ ProvingDone =>
          /\ Shape(The(params), rows, copies, constants) = The(vk)
          /\ Shape(The(params), rows, copies, constants) = The(pk).shape
          /\ \A r \in 1 .. Len(rows) : rows[r].b # Unknown /\ rows[r].c # Unknown

C10_Witness ==
    /\ ProvingDone
    /\ public_input = <<0, 4095>>
    /\ Len(rows) = The(vk).nrows
    /\ copies = The(vk).copies

\* C11: the unit tests' mock constraint check. In example.rs (3 chain steps, left
\* from slot 0, multiplier from slot 1, output slot 2) every public input vector
\* (a, b, a*b^4) satisfies all gates and copy constraints, and in example2.rs
\* (1 chain step, left the constant 1, multiplier from slot 0, output slot 1) every
\* (x, x^2) does: assert_satisfied never panics on them.
C11_MockProverSatisfied ==
    LET good == IF variant = "example_test"
                THEN public_input[3] = FMul(public_input[1], FieldPow(public_input[2], 4))
                ELSE public_input[2] = FieldPow(public_input[1], 2)
    IN good =>
          /\ panic = ""
          /\ spc = "done" =>
                /\ TraceSatisfied(rows, copies, constants, public_input)
                /\ Len(rows) = (IF variant = "example_test" THEN 4 ELSE 2)

C11_Witness ==
    /\ variant = "example_test"
    /\ public_input = <<1, 2, 16>>
    /\ pc = "done"
    /\ LastRow.c = Known(16)

\* A pass in which the instance column is known.
KnowsInstance == mode \in {"prove", "mock"}

\* C12 as stated: in every variant the bootstrap row has the selector on, left the
\* constant 1 bound to the constant, right the value of instance slot 0 copied from
\* that instance cell, and product left * right, so row 0 is (1, x, x).
C12_BootstrapRowIsOneXX ==
    (rows # <<>> /\ KnowsInstance) =>
        /\ rows[1] = [a |-> Known(FpFrom(1)), b |-> Known(public_input[1]),
                      c |-> Known(public_input[1]), s |-> TRUE]
        /\ <<Cell("constant", 0), Cell("a", 0)>> \in copies
        /\ <<Cell("instance", 0), Cell("b", 0)>> \in copies

\* C12 amended: the bootstrap row has the selector on and product = left * right in
\* every variant. In the constant-bootstrap variants (benches/example1.rs,
\* benches/example2.rs, src/example2.rs) left is the constant 1 bound to the
\* constant cell and right is copied from instance slot 0, so row 0 is (1, x, x)
\* whatever the other slots hold (and (1, unknown, unknown) in the key passes). In
\* src/example.rs left is copied from instance slot 0 and right from instance slot
\* 1, so row 0 is (a, b, a * b).
C12_BootstrapRowPerVariant ==
    rows # <<>> =>
        /\ rows[1].s
        /\ rows[1].c = VMul(rows[1].a, rows[1].b)
        /\ IF variant = "example_test"
           THEN /\ rows[1].a = Known(public_input[1])
                /\ rows[1].b = Known(public_input[2])
                /\ rows[1].c = Known(FMul(public_input[1], public_input[2]))
                /\ <<Cell("instance", 0), Cell("a", 0)>> \in copies
                /\ <<Cell("instance", 1), Cell("b", 0)>> \in copies
                /\ constants = <<>>
           ELSE /\ rows[1].a = Known(FpFrom(1))
                /\ constants = <<FpFrom(1)>>
                /\ <<Cell("constant", 0), Cell("a", 0)>> \in copies
                /\ <<Cell("instance", 0), Cell("b", 0)>> \in copies
                /\ KnowsInstance =>
                      /\ rows[1].b = Known(public_input[1])
                      /\ rows[1].c = Known(public_input[1])
                /\ mode \in {"keygen_vk", "keygen_pk"} =>
                      /\ rows[1].b = Unknown
                      /\ rows[1].c = Unknown

C12_Witness ==
    /\ variant = "example1"
    /\ mode = "prove"
    /\ spc = "loop"
    /\ Len(rows) = 1
    /\ public_input = <<3, 4095>>
    /\ rows[1] = [a |-> Known(1), b |-> Known(3), c |-> Known(3), s |-> TRUE]

\* Cells the declared copy constraints force equal to the cells of S: the
\* constraints are equalities, so the closure runs over them in both directions.
RECURSIVE CopyClass(_, _)
CopyClass(S, cs) ==
    LET T == S \cup {cp[2] : cp \in {q \in cs : q[1] \in S}}
               \cup {cp[1] : cp \in {q \in cs : q[2] \in S}}
    IN IF T = S THEN S ELSE CopyClass(T, cs)

CopyLinked(c1, c2) == c2 \in CopyClass({c1}, copies)

\* C13: in every state, for every chain-step row i >= 1 the left cell is
\* copy-constrained to the product cell of row i-1 and the right cell is tied by the
\* copy constraints to the right cell of row i-1 (the declared pair is with the
\* right cell of row 0, which synthesize hands to every step), so left[i] =
\* product[i-1] and right[i] = right[0], which is x when the instance is known.
C13_ChainStepRow ==
    LET rights == CopyClass({Cell("b", 0)}, copies)
    IN \A r \in 2 .. Len(rows) :
        /\ <<Cell("c", r - 2), Cell("a", r - 1)>> \in copies
        /\ <<Cell("b", 0), Cell("b", r - 1)>> \in copies
        /\ {Cell("b", r - 1), Cell("b", r - 2)} \subseteq rights
        /\ rows[r].a = rows[r - 1].c
        /\ rows[r].b = rows[1].b
        /\ mode = "prove" => rows[r].b = Known(public_input[1])

C13_Witness ==
    /\ mode = "prove"
    /\ spc = "loop"
    /\ Len(rows) = 7
    /\ public_input[1] = 2
    /\ rows[7].a = Known(64)
    /\ rows[6].c = Known(64)
    /\ rows[7].b = Known(2)
    /\ CopyLinked(Cell("b", 6), Cell("b", 5))

\* C14: the assignment engine validates nothing. In a pass with witnesses
\* synthesize never returns Err, whatever the public input vector (an Err comes only
\* from parameters too small for the 12 rows); while it runs nothing panics; with an
\* output slot that differs from x^12 it still completes, leaving an unsatisfied
\* trace; the panics of proof creation and verification come only after synthesize
\* has completed the whole trace.
C14_EngineValidatesNothing ==
    /\ mode = "prove" => spc # "error"
    /\ spc = "error" => The(params).k # K
    /\ spc \in {"intial_assign", "loop"} => panic = ""
    /\ (ProvingDone /\ public_input[2] # FieldPow(public_input[1], 12)) =>
          /\ Len(rows) = 12
          /\ OutputBinding \in copies
          /\ ~TraceSatisfied(rows, copies, constants, public_input)
    /\ panic \in {"proof generation failed", "verification rejected"} =>
          /\ Len(rows) = 12
          /\ OutputBinding \in copies

C14_Witness ==
    /\ ProvingDone
    /\ public_input = <<3, 4096>>
    /\ panic = ""
    /\ LastRow.c = Known(FieldPow(3, 12))
    /\ ~TraceSatisfied(rows, copies, constants, public_input)

FailuresAbort ==
    /\ panic # "" => pc = "aborted"
    /\ pc = "done" => (panic = "" /\ \A j \in DOMAIN verdicts : verdicts[j])
    /\ \A j \in DOMAIN verdicts :
          ~verdicts[j] => (j = Len(verdicts) /\ panic = "verification rejected")
    /\ panic = "vk generation failed" =>
          (vk = None /\ pk = None /\ created = 0 /\ proof = None /\ verdicts = <<>>)
    /\ panic = "proof generation failed" => (proof = None /\ verdicts = <<>>)

FailureStep ==
    /\ panic = ""
    /\ spc = "error" => (panic' = "vk generation failed" /\ pc' = "aborted")

\* C15: failures are never ignored. When key generation or proof creation returns
\* Err, or verification rejects, the run is aborted at that call: a synthesize error
\* is followed by the abort and nothing else, a rejecting verdict is the last
\* verdict, no step at all is taken after the abort (no later step, no retry), and a
\* run that completes has seen no failure.
C15_FailuresAbort == []FailuresAbort /\ [][FailureStep]_vars

C15_Witness ==
    /\ pc = "aborted"
    /\ panic = "vk generation failed"
    /\ spc = "error"
    /\ Len(rows) = 10
    /\ vk = None

IsPrefix(s1, s2) ==
    /\ Len(s1) <= Len(s2)
    /\ \A r \in 1..Len(s1) : s2[r] = s1[r]

Assigning == spc \in {"intial_assign", "loop"}

FreshTrace ==
    /\ spc' = "intial_assign"
    /\ rows' = <<>>
    /\ copies' = {}
    /\ constants' = <<>>

TraceFrame ==
    /\ IsPrefix(rows, rows')
    /\ Len(rows') <= Len(rows) + 1
    /\ IsPrefix(constants, constants')
    /\ copies \subseteq copies'
    /\ ~Assigning => (rows' = rows /\ copies' = copies /\ constants' = constants)

\* C16: an assigned cell is immutable. Within one synthesize pass every step adds at
\* most one new row below the rows assigned so far and leaves the values and selector
\* flags of all earlier rows as they were, and copy constraints are only added; once
\* the pass is over nothing changes the rows, the constants or the copy constraints.
\* The only other change of the trace is the start of the next, fresh pass.
C16_CellsImmutable == [][FreshTrace \/ TraceFrame]_vars

C16_Witness ==
    /\ pc = "verify_bench"
    /\ ~Assigning
    /\ verdicts # <<>>
    /\ public_input = <<2, 4096>>
    /\ Len(rows) = 12
    /\ rows[1] = [a |-> Known(1), b |-> Known(2), c |-> Known(2), s |-> TRUE]
    /\ rows[12].c = Known(4096)
    /\ Cardinality(copies) = 25

\* The proof file was there before bench_example ran / was written by this run.
ProofFileFound == fsProof # NoFile /\ gen_proof = None
ProofFileMade == gen_proof # None

ProofCache ==
    variant = "example2" =>
       /\ created <= 1
       /\ ProofFileFound =>
             /\ created = 0
             /\ mode # "prove"
             /\ pc \notin {"prove", "proof_write"}
       /\ ProofFileMade =>
             /\ created = 1
             /\ pc = "proof_write" => (fsProof = NoFile /\ proof = None)
             /\ pc # "proof_write" => fsProof = File(The(gen_proof))
       /\ (proof # None \/ verdicts # <<>> \/ pc \in {"verify_bench", "done"}) =>
             /\ fsProof # NoFile
             /\ proof = Some(FileRead(fsProof))
             /\ created = (IF ProofFileMade THEN 1 ELSE 0)

ProofCacheStep ==
    variant = "example2" =>
       /\ (mode # "prove" /\ mode' = "prove") =>
             (fsProof = NoFile /\ created = 0 /\ gen_proof = None)
       /\ created' # created => (fsProof = NoFile /\ created = 0 /\ created' = 1)
       /\ fsProof' # fsProof =>
             (fsProof = NoFile /\ created = 1 /\ proof = None /\ verdicts = <<>>
              /\ fsProof' = File(The(gen_proof)))

\* C17: the example2 harness uses the proof file as a cache. When the file exists
\* at the start of the run create_proof is never called, the file is never rewritten,
\* and the bytes given to verify_proof are the file's content, whatever the current
\* parameters, keys and public inputs are. When the file is absent create_proof is
\* called once, its transcript is written to the file before any verification, and
\* the bytes verified are the ones read back from that file.
C17_ProofCache == []ProofCache /\ [][ProofCacheStep]_vars

C17_Witness ==
    /\ variant = "example2"
    /\ pc = "aborted"
    /\ panic = "verification rejected"
    /\ created = 0
    /\ ProofFileFound
    /\ public_input = <<3, FieldPow(3, 12)>>
    /\ proof = Some(ProofBytes(ParamsNew(K), [nrows |-> LoopEnd],
                               <<FpFrom(InputConst), FpFrom(OutputConst)>>, TRUE))

====
